---- MODULE Spec2Model ----
(***************************************************************************)
(* Model of opensearch.py: the CSV import and delete pipelines             *)
(* (import_csv, delete_csv), their bulk write / refresh requests and the   *)
(* backing store they talk to.                                             *)
(*                                                                         *)
(* Strings are sequences of one-character strings, so that int() and       *)
(* str.encode() are computed and not assumed.  The empty string is <<>>.   *)
(***************************************************************************)
EXTENDS Integers, Sequences, FiniteSets, TLC

\* ------------------------------------------------------------------ bounds
MaxRows == 2
MaxBatchSize == 2
MaxRuns == 2

\* ------------------------------------------------------- input alphabet
\* A lone surrogate, as open(errors='surrogateescape') yields for a byte
\* that is not valid UTF-8.
SURR == "\\udc80"

RowNew ==
    << <<"1","0">>, <<"/","a">>, <<"a">>, <<"s","1">>, <<"h","1">>,
       <<"t">>, <<"f">>, <<"x">> >>
RowLegacy ==
    << <<"2","0">>, <<"/","b">>, <<"t">>, <<"f">>, <<"y">> >>
RowShort ==
    << <<"o","n","l","y">>, <<"t","w","o">> >>
RowBadTs ==
    << <<"a","b","c">>, <<"/","c">>, <<"t">>, <<"f">>, <<"z">> >>
\* an integer timestamp past year 9999, on the path of RowNew
RowRangeTs ==
    << <<"9","9","9","9","9","9","9","9","9","9","9","9","9">>,
       <<"/","a">>, <<"t">>, <<"f">>, <<"w">> >>
RowSurrPath ==
    << <<"3","0">>, <<"/",SURR>>, <<"t">>, <<"f">>, <<"v">> >>

\* nine fields (one past the new schema), on the path of RowNew
RowNine ==
    << <<"4","0">>, <<"/","a">>, <<"r","9">>, <<"s","9">>, <<"h","9">>,
       <<"e","9">>, <<"f","9">>, <<"c","9">>, <<"x","9">> >>
\* seven fields (legacy schema with two extra fields), on the path of RowLegacy
RowSeven ==
    << <<"5","0">>, <<"/","b">>, <<"e","7">>, <<"f","7">>, <<"c","7">>,
       <<"x","7">>, <<"y","7">> >>

RowTable ==
    <<RowNew, RowLegacy, RowShort, RowBadTs, RowRangeTs, RowSurrPath, RowNine,
      RowSeven>>

IndexName == <<"i","d","x">>
Site == <<"d","a","t","a">>

\* --------------------------------------------------------- int(timestamp)
IsDigit(c) == c \in {"0","1","2","3","4","5","6","7","8","9"}
IsSpace(c) == c \in {" ", "\t", "\n", "\r"}

RECURSIVE LStrip(_)
LStrip(s) == IF s # <<>> /\ IsSpace(Head(s)) THEN LStrip(Tail(s)) ELSE s

RECURSIVE RStrip(_)
RStrip(s) ==
    IF s # <<>> /\ IsSpace(s[Len(s)]) THEN RStrip(SubSeq(s, 1, Len(s) - 1)) ELSE s

Strip(s) == RStrip(LStrip(s))

Unsigned(s) == IF s # <<>> /\ Head(s) \in {"+", "-"} THEN Tail(s) ELSE s

\* digits, with single underscores allowed between two digits
ValidDigits(d) ==
    /\ d # <<>>
    /\ \A i \in 1..Len(d) :
          \/ IsDigit(d[i])
          \/ /\ d[i] = "_"
             /\ i > 1 /\ i < Len(d)
             /\ IsDigit(d[i-1]) /\ IsDigit(d[i+1])

\* int(s) raises ValueError unless this holds
PyIntParses(s) == ValidDigits(Unsigned(Strip(s)))

RECURSIVE StripZeros(_)
StripZeros(d) ==
    IF Len(d) > 1 /\ Head(d) = "0" THEN StripZeros(Tail(d)) ELSE d

\* the value of int(s): sign and magnitude (decimal digits, no leading zero)
PyInt(s) ==
    LET t == Strip(s)
        mag == StripZeros(SelectSeq(Unsigned(t), IsDigit))
    IN  [neg |-> (t # <<>> /\ Head(t) = "-" /\ mag # <<"0">>), mag |-> mag]

DigitVal(c) ==
    CASE c = "0" -> 0 [] c = "1" -> 1 [] c = "2" -> 2 [] c = "3" -> 3
      [] c = "4" -> 4 [] c = "5" -> 5 [] c = "6" -> 6 [] c = "7" -> 7
      [] c = "8" -> 8 [] c = "9" -> 9

\* a <= b on magnitudes without leading zeros
RECURSIVE LexLeq(_, _)
LexLeq(a, b) ==
    IF a = <<>> THEN TRUE
    ELSE IF DigitVal(Head(a)) # DigitVal(Head(b))
         THEN DigitVal(Head(a)) < DigitVal(Head(b))
         ELSE LexLeq(Tail(a), Tail(b))

MagLeq(a, b) ==
    IF Len(a) # Len(b) THEN Len(a) < Len(b) ELSE LexLeq(a, b)

\* datetime.fromtimestamp(n) raises (ValueError / OverflowError / OSError)
\* outside the years 1..9999
MaxEpoch == <<"2","5","3","4","0","2","3","0","0","7","9","9">>
MinEpoch == <<"6","2","1","3","5","5","9","6","8","0","0">>

FromTimestampOk(n) ==
    IF n.neg THEN MagLeq(n.mag, MinEpoch) ELSE MagLeq(n.mag, MaxEpoch)

\* datetime.fromtimestamp(int(ts)).strftime(...) : the formatted date of n
FormatTimestamp(n) == <<"date", n.neg, n.mag>>

\* the whole expression of line 267 evaluates without raising
TimestampOk(ts) == PyIntParses(ts) /\ FromTimestampOk(PyInt(ts))

\* ------------------------------------------------- fullpath.encode(), md5
\* str.encode() is strict UTF-8: a lone surrogate raises UnicodeEncodeError
EncodeOk(s) == \A i \in 1..Len(s) : s[i] # SURR

\* md5(...).hexdigest(): a fixed-length digest, distinct from its input and
\* distinct for distinct inputs
Md5Hex(s) == <<"md5">> \o s

DocId(fullpath) == Md5Hex(fullpath)


\* ------------------------------------------------------ record normalizer
\* mutant: a row of exactly 8 fields is read as the legacy schema
Normalize_Over8(row) ==
    IF Len(row) > 8
    THEN [timestamp |-> row[1], fullpath |-> row[2], relpath |-> row[3],
          server |-> row[4], share |-> row[5], ext |-> row[6],
          filetype |-> row[7], content |-> row[8]]
    ELSE [timestamp |-> row[1], fullpath |-> row[2], relpath |-> row[2],
          server |-> <<>>, share |-> <<>>, ext |-> row[3],
          filetype |-> row[4], content |-> row[5]]

\* lines 250-255: the fields of a row with at least 5 fields
Normalize(row) ==
    IF Len(row) >= 8
    THEN [timestamp |-> row[1], fullpath |-> row[2], relpath |-> row[3],
          server |-> row[4], share |-> row[5], ext |-> row[6],
          filetype |-> row[7], content |-> row[8]]
    ELSE [timestamp |-> row[1], fullpath |-> row[2], relpath |-> row[2],
          server |-> <<>>, share |-> <<>>, ext |-> row[3],
          filetype |-> row[4], content |-> row[5]]

\* ------------------------------------------------------------- wire units
\* The field row is a history tag (the 1-based position of the CSV row the
\* unit was built from); the program does not read it.
IndexHeader(r, id) ==
    [kind |-> "index", _index |-> IndexName, _id |-> id, row |-> r]

\* mutant: the delete is keyed by the path itself, not by its hash
DeleteHeader_Unhashed(r, id) ==
    [kind |-> "delete", _index |-> IndexName, _id |-> Tail(id), row |-> r]

DeleteHeader(r, id) ==
    [kind |-> "delete", _index |-> IndexName, _id |-> id, row |-> r]

Document(r, rec) ==
    [kind |-> "doc", row |-> r,
     timestamp |-> FormatTimestamp(PyInt(rec.timestamp)),
     inurl |-> rec.fullpath, relpath |-> rec.relpath, server |-> rec.server,
     share |-> rec.share, site |-> Site, ext |-> rec.ext, intitle |-> <<>>,
     intext |-> rec.content, filetype |-> rec.filetype]

\* ---------------------------------------------------------- backing store
\* The store reads a bulk body line by line: an action line, then (for an
\* index action) the next line as its source, whatever that line is.
RECURSIVE ParseOps(_)
ParseOps(body) ==
    IF body = <<>> THEN [status |-> "ok", ops |-> <<>>]
    ELSE LET h == Head(body) IN
         IF h.kind = "doc" THEN [status |-> "malformed", ops |-> <<>>]
         ELSE IF h.kind = "delete"
         THEN LET r == ParseOps(Tail(body)) IN
              [status |-> r.status,
               ops |-> <<[action |-> "delete", id |-> h._id, source |-> <<>>]>>
                       \o r.ops]
         ELSE IF Len(body) = 1 THEN [status |-> "truncated", ops |-> <<>>]
         ELSE LET r == ParseOps(SubSeq(body, 3, Len(body))) IN
              [status |-> r.status,
               ops |-> <<[action |-> "index", id |-> h._id,
                          source |-> <<body[2]>>]>> \o r.ops]

NoResponse == [errors |-> FALSE, items |-> <<>>]

\* the response of the store to the parsed operations when the items in
\* failedItems are rejected: {errors: bool, items: [...]}
BulkResponse(ops, failedItems) ==
    [errors |-> failedItems # {},
     items |-> [i \in 1..Len(ops) |->
                  [action |-> ops[i].action, _id |-> ops[i].id,
                   error |-> i \in failedItems]]]

\* what client.bulk(body=..., refresh=False) can do: raise (transport
\* failure, or the store rejecting the whole request), or return a response
\* in which any subset of the items carries an error
BulkOutcomes(body) ==
    LET p == ParseOps(body) IN
    {[raised |-> TRUE, response |-> NoResponse]}
    \cup (IF p.status # "malformed" /\ p.ops # <<>>
          THEN {[raised |-> FALSE, response |-> BulkResponse(p.ops, E)] :
                    E \in SUBSET (1..Len(p.ops))}
          ELSE {})

ForeignId == DocId(<<"/","e">>)
ForeignDoc == [kind |-> "doc", row |-> 0, intext |-> <<"q">>]

AllIds ==
    {DocId(RowTable[i][2]) :
        i \in {k \in 1..Len(RowTable) : Len(RowTable[k]) >= 5}} \cup {ForeignId}

RECURSIVE ApplyOps(_, _, _)
\* the store after the accepted items of a bulk request, in order
ApplyOps(st, ops, items) ==
    IF ops = <<>> THEN st
    ELSE LET op == Head(ops)
             st1 == IF Head(items).error THEN st
                    ELSE [st EXCEPT ![op.id] = op.source]
         IN  ApplyOps(st1, Tail(ops), Tail(items))

StoreAfter(st, body, o) ==
    IF o.raised THEN st ELSE ApplyOps(st, ParseOps(body).ops, o.response.items)

\* lines 424-432, get_cache when the request itself does not fail: the
\* intext of the stored source, NotFoundError for an absent document, and
\* "failed" (KeyError, caught at 431) for a source without intext
CacheLookup(st, id) ==
    IF id \notin DOMAIN st \/ st[id] = <<>>
    THEN [status |-> "not_found", content |-> <<>>]
    ELSE IF "intext" \in DOMAIN st[id][1]
         THEN [status |-> "found", content |-> st[id][1].intext]
         ELSE [status |-> "failed", content |-> <<>>]

\* ------------------------------------------------------------ credentials
MaxLines == 2

\* lines 59-63: the three configuration files, in the order they are tried
ConfigPaths == 1..3

UserPrefix == <<"O","P","E","N","S","E","A","R","C","H","_","U","S","E","R","=">>
PassPrefix == <<"O","P","E","N","S","E","A","R","C","H","_","P","A","S","S","=">>

\* the values each source can give; the digit names the source (0 is the
\* environment, 1..3 the configuration files)
Digit(k) == CASE k = 0 -> "0" [] k = 1 -> "1" [] k = 2 -> "2" [] OTHER -> "3"
UserOf(k) == <<"u", Digit(k)>>
PassOf(k) == <<"p", Digit(k)>>

\* the lines a configuration file k can hold: a user line and an indented
\* password line with a quoted value, each ending in a newline
UserLine(k) == UserPrefix \o UserOf(k) \o <<"\n">>
PassLine(k) == <<" ">> \o PassPrefix \o <<"\"">> \o PassOf(k) \o <<"\"", "\n">>
LinesOf(k) == {UserLine(k), PassLine(k)}

\* str.startswith
StartsWith(s, prefix) ==
    Len(s) >= Len(prefix) /\ SubSeq(s, 1, Len(prefix)) = prefix

\* line.split('=', 1)[1] for a line that holds an '='
RECURSIVE AfterEquals(_)
AfterEquals(s) ==
    IF s = <<>> THEN <<>>
    ELSE IF Head(s) = "=" THEN Tail(s) ELSE AfterEquals(Tail(s))

IsQuote(c) == c \in {"\"", "'"}

RECURSIVE LStripQuotes(_)
LStripQuotes(s) ==
    IF s # <<>> /\ IsQuote(Head(s)) THEN LStripQuotes(Tail(s)) ELSE s

RECURSIVE RStripQuotes(_)
RStripQuotes(s) ==
    IF s # <<>> /\ IsQuote(s[Len(s)]) THEN RStripQuotes(SubSeq(s, 1, Len(s) - 1)) ELSE s

\* .strip('"\'')
StripQuotes(s) == RStripQuotes(LStripQuotes(s))

\* lines 68-72: what one line of a file does to user and password
ReadLine(line, up) ==
    LET l == Strip(line) IN
    IF StartsWith(l, UserPrefix)
    THEN [up EXCEPT !.user = StripQuotes(AfterEquals(l))]
    ELSE IF StartsWith(l, PassPrefix)
    THEN [up EXCEPT !.password = StripQuotes(AfterEquals(l))]
    ELSE up

\* lines 67-72: the first n lines of a file read in order
RECURSIVE ReadLines(_, _, _)
ReadLines(lines, n, up) ==
    IF n = 0 THEN up
    ELSE ReadLine(lines[n], ReadLines(lines, n - 1, up))

\* the number of lines read before the file raises: all of them when it
\* does not, none when open() raises, one when a later read raises
LinesRead(f) ==
    CASE f.fails = "none" -> Len(f.lines)
      [] f.fails = "open" -> 0
      [] OTHER -> 1

FallbackPair == <<"a","d","m","i","n">>

CredWarning(about) == [level |-> "warning", about |-> about]

\* lines 64-82: the loop over the configuration files from file k on, up
\* holding user and password as they stand, and the fallback after it
RECURSIVE FromFiles(_, _, _, _)
FromFiles(k, files, up, warnings) ==
    IF k > 3
    THEN [user |-> FallbackPair, password |-> FallbackPair,
          warnings |-> Append(warnings, CredWarning("default credentials"))]
    ELSE IF ~files[k].exists
    THEN FromFiles(k + 1, files, up, warnings)
    ELSE LET r == ReadLines(files[k].lines, LinesRead(files[k]), up) IN
         IF files[k].fails # "none"
         THEN FromFiles(k + 1, files, r, Append(warnings, CredWarning("could not read")))
         ELSE IF r.user # <<>> /\ r.password # <<>>
         THEN [user |-> r.user, password |-> r.password, warnings |-> warnings]
         ELSE FromFiles(k + 1, files, r, warnings)

\* lines 49-82
GetCredentials(env, files) ==
    IF env.user # <<>> /\ env.password # <<>>
    THEN [user |-> env.user, password |-> env.password, warnings |-> <<>>]
    ELSE FromFiles(1, files, [user |-> env.user, password |-> env.password], <<>>)

\* what OPENSEARCH_USER / OPENSEARCH_PASS can be: unset or empty is <<>>
Environs == [user : {<<>>, UserOf(0)}, password : {<<>>, PassOf(0)}]

\* what a configuration file k can be: absent, or present with at most
\* MaxLines lines, readable or raising at open() or after its first line
FilesOf(k) ==
    {[exists |-> FALSE, lines |-> <<>>, fails |-> "none"]} \cup
    {[exists |-> TRUE, lines |-> l, fails |-> f] :
        l \in UNION {[1..n -> LinesOf(k)] : n \in 0..MaxLines},
        f \in {"none", "open"}} \cup
    {[exists |-> TRUE, lines |-> l, fails |-> "read"] :
        l \in UNION {[1..n -> LinesOf(k)] : n \in 1..MaxLines}}

\* both variables set in the environment and no configuration file
SetEnviron == [user |-> UserOf(0), password |-> PassOf(0)]
NoConfigs == [k \in ConfigPaths |-> [exists |-> FALSE, lines |-> <<>>, fails |-> "none"]]

\* ------------------------------------------------------------------ state
VARIABLES
    mode,        \* "import" | "delete": which of import_csv / delete_csv runs
    batch_size,  \* the batch_size parameter
    csv,         \* the rows the reader yields, in order
    pc,          \* "idle" | "open" | "reading" | "refresh" | "done" | "returned" | "raised"
    pos,         \* 1-based position of the next row of the reader
    batch,       \* the list batch
    total,       \* submitted counter
    errors,      \* failed counter
    log,         \* requests issued to the backing store, in order
    store,       \* documents of the target index: id -> <<source>> or <<>>
    reported,    \* <<>>, or the final tally printed by the run
    source,      \* what open(source) does: "ok" | "FileNotFoundError" | "OSError"
    run,         \* number of the current run on this CSV, from 1
    prior,       \* one record per completed earlier run, in order
    store0,      \* the documents of the index before the first run
    mpc,         \* position in main: "start" | "connect" | "dispatch" | "action" | "unwind" | "exited"
    address,     \* the positional argument: "ok" (host:port) | "invalid"
    cmd,         \* the action flag given: "init" | "drop" | ... | "none"
    index,       \* args.index, "" is <<>>
    query,       \* args.query, "" is <<>>
    conn,        \* the client of get_client: "none" | "open" | "closed"
    closes,      \* number of calls of client.close()
    exit,        \* how the with-block was left: "none" | "normal" | "SystemExit" | "exception"
    messages,    \* what main and the admin functions logged, in order
    indices,     \* names of the indices the store holds
    requests,    \* admin/search/get requests issued to the store, in order
    environ,     \* OPENSEARCH_USER and OPENSEARCH_PASS of the environment
    configs,     \* the three configuration files
    creds        \* <<>>, or the one result of get_credentials

\* what a run of import_csv / delete_csv does not touch
cli == <<mpc, address, index, query, conn, closes, exit, messages, indices, requests>>

crd == <<environ, configs, creds>>

outer == <<run, prior, store0, cmd, cli, crd>>

vars == <<mode, batch_size, csv, pc, pos, batch, total, errors, log, store,
          reported, source, outer>>

\* main at line 530 / 536, about to call import_csv / delete_csv: the
\* address parsed, the client open, the index named
InAction ==
    /\ mpc = "action"
    /\ address = "ok"
    /\ cmd = mode
    /\ index = IndexName
    /\ query = <<>>
    /\ conn = "open"
    /\ closes = 0
    /\ exit = "none"
    /\ messages = <<>>
    /\ indices = {IndexName}
    /\ requests = <<>>
    /\ environ = SetEnviron
    /\ configs = NoConfigs
    /\ creds = <<[user |-> environ.user, password |-> environ.password]>>

InitStore == [id \in AllIds |-> IF id = ForeignId THEN <<ForeignDoc>> ELSE <<>>]

\* the same index when another source has already indexed the path /c
PreDoc == [kind |-> "doc", row |-> 0, intext |-> <<"p">>]
PreStore == [InitStore EXCEPT ![DocId(<<"/","c">>)] = <<PreDoc>>]

CsvFiles ==
    UNION {{[i \in 1..n |-> RowTable[f[i]]] : f \in [1..n -> 1..Len(RowTable)]} :
              n \in 0..MaxRows}

Init ==
    /\ mode \in {"import", "delete"}
    /\ batch_size \in 1..MaxBatchSize
    /\ csv \in CsvFiles
    /\ pc = "open"
    /\ pos = 1
    /\ batch = <<>>
    /\ total = 0
    /\ errors = 0
    /\ log = <<>>
    /\ store \in {InitStore, PreStore}
    /\ reported = <<>>
    /\ source \in {"ok", "FileNotFoundError", "OSError"}
    /\ run = 1
    /\ prior = <<>>
    /\ store0 = store
    /\ InAction

\* --------------------------------------------------------------- requests
\* mutant: the bulk write forces a refresh
BulkRequest_Refreshing(body, o) ==
    [type |-> "bulk", index |-> IndexName, body |-> body, refresh |-> TRUE,
     raised |-> o.raised, response |-> o.response]

BulkRequest(body, o) ==
    [type |-> "bulk", index |-> IndexName, body |-> body, refresh |-> FALSE,
     raised |-> o.raised, response |-> o.response]

RefreshRequest(raised) ==
    [type |-> "refresh", index |-> IndexName, body |-> <<>>, refresh |-> FALSE,
     raised |-> raised, response |-> NoResponse]

\* mutant: item errors are not counted
BatchErrors_Ignored(response) == 0

\* lines 282-284 / 342-344: the per-item errors counted from a response
BatchErrors(response) ==
    IF response.errors
    THEN Cardinality({i \in 1..Len(response.items) : response.items[i].error})
    ELSE 0

\* line 280 and line 340
ImportBatchFull(b, size) == Len(b) >= size * 2
DeleteBatchFull(b, size) == Len(b) >= size

\* lines 285, 302 and lines 345, 357
ImportCount(b) == Len(b) \div 2
DeleteCount(b) == Len(b)

\* ---------------------------------------------------------------- actions
\* mutant: a missing file is logged and the run goes on
OpenSource_Continues ==
    /\ pc = "open"
    /\ pc' = CASE source = "ok" -> "reading"
              [] source = "FileNotFoundError" -> "reading"
              [] source = "OSError" -> "raised"
    /\ UNCHANGED <<mode, batch_size, csv, pos, batch, total, errors, log,
                   store, reported, source, outer>>

\* lines 239-245, 309-313 / 320-326, 362-363
OpenSource ==
    /\ pc = "open"
    /\ pc' = CASE source = "ok" -> "reading"
              [] source = "FileNotFoundError" -> "returned"
              [] source = "OSError" -> "raised"
    /\ UNCHANGED <<mode, batch_size, csv, pos, batch, total, errors, log,
                   store, reported, source, outer>>

\* the flush of lines 281-287 (import) and 341-347 (delete), inside the
\* per-row try: a raising bulk call is caught by `except Exception`
MidRunFlush(b, count) ==
    \E o \in BulkOutcomes(b) :
        /\ log' = Append(log, BulkRequest(b, o))
        /\ store' = StoreAfter(store, b, o)
        /\ IF o.raised
           THEN /\ errors' = errors + 1
                /\ total' = total
                /\ batch' = b
           ELSE /\ errors' = errors + BatchErrors(o.response)
                /\ total' = total + count
                /\ batch' = <<>>

\* mutant: a malformed row is skipped without being counted
ImportMalformed_Uncounted ==
    /\ pc = "reading" /\ mode = "import" /\ pos <= Len(csv)
    /\ Len(csv[pos]) < 5
    /\ pos' = pos + 1
    /\ UNCHANGED <<mode, batch_size, csv, pc, batch, total, errors, log,
                   store, reported, source, outer>>

\* lines 256-259
ImportMalformed ==
    /\ pc = "reading" /\ mode = "import" /\ pos <= Len(csv)
    /\ Len(csv[pos]) < 5
    /\ errors' = errors + 1
    /\ pos' = pos + 1
    /\ UNCHANGED <<mode, batch_size, csv, pc, batch, total, log, store, reported, source, outer>>

\* line 262 raising UnicodeEncodeError, caught at line 289
ImportEncodeError ==
    /\ pc = "reading" /\ mode = "import" /\ pos <= Len(csv)
    /\ Len(csv[pos]) >= 5
    /\ ~EncodeOk(Normalize(csv[pos]).fullpath)
    /\ errors' = errors + 1
    /\ pos' = pos + 1
    /\ UNCHANGED <<mode, batch_size, csv, pc, batch, total, log, store, reported, source, outer>>

\* line 265 appends the header, then line 267 raises; caught at 289 / 292
ImportBadTimestamp ==
    /\ pc = "reading" /\ mode = "import" /\ pos <= Len(csv)
    /\ Len(csv[pos]) >= 5
    /\ LET rec == Normalize(csv[pos]) IN
          /\ EncodeOk(rec.fullpath)
          /\ ~TimestampOk(rec.timestamp)
          /\ batch' = Append(batch, IndexHeader(pos, DocId(rec.fullpath)))
    /\ errors' = errors + 1
    /\ pos' = pos + 1
    /\ UNCHANGED <<mode, batch_size, csv, pc, total, log, store, reported, source, outer>>

\* lines 262-287
ImportAppend ==
    /\ pc = "reading" /\ mode = "import" /\ pos <= Len(csv)
    /\ Len(csv[pos]) >= 5
    /\ LET rec == Normalize(csv[pos])
           b == batch \o <<IndexHeader(pos, DocId(rec.fullpath)),
                           Document(pos, rec)>>
       IN  /\ EncodeOk(rec.fullpath)
           /\ TimestampOk(rec.timestamp)
           /\ IF ImportBatchFull(b, batch_size)
              THEN MidRunFlush(b, ImportCount(b))
              ELSE /\ batch' = b
                   /\ UNCHANGED <<total, errors, log, store>>
    /\ pos' = pos + 1
    /\ UNCHANGED <<mode, batch_size, csv, pc, reported, source, outer>>

\* lines 334-335
DeleteSkip ==
    /\ pc = "reading" /\ mode = "delete" /\ pos <= Len(csv)
    /\ Len(csv[pos]) < 5
    /\ pos' = pos + 1
    /\ UNCHANGED <<mode, batch_size, csv, pc, batch, total, errors, log,
                   store, reported, source, outer>>

\* line 337 raising UnicodeEncodeError, caught at line 349
DeleteEncodeError ==
    /\ pc = "reading" /\ mode = "delete" /\ pos <= Len(csv)
    /\ Len(csv[pos]) >= 5
    /\ ~EncodeOk(csv[pos][2])
    /\ errors' = errors + 1
    /\ pos' = pos + 1
    /\ UNCHANGED <<mode, batch_size, csv, pc, batch, total, log, store, reported, source, outer>>

\* lines 330-347
DeleteAppend ==
    /\ pc = "reading" /\ mode = "delete" /\ pos <= Len(csv)
    /\ Len(csv[pos]) >= 5
    /\ EncodeOk(csv[pos][2])
    /\ LET b == Append(batch, DeleteHeader(pos, DocId(csv[pos][2]))) IN
          IF DeleteBatchFull(b, batch_size)
          THEN MidRunFlush(b, DeleteCount(b))
          ELSE /\ batch' = b
               /\ UNCHANGED <<total, errors, log, store>>
    /\ pos' = pos + 1
    /\ UNCHANGED <<mode, batch_size, csv, pc, reported, source, outer>>

\* lines 296-302 / 352-357: the loop is over; a raising bulk call leaves the
\* function (import: logged and re-raised at 311-313; delete: not caught)
FinalFlush ==
    /\ pc = "reading" /\ pos > Len(csv)
    /\ IF batch = <<>>
       THEN /\ pc' = "refresh"
            /\ UNCHANGED <<total, errors, log, store>>
       ELSE \E o \in BulkOutcomes(batch) :
               /\ log' = Append(log, BulkRequest(batch, o))
               /\ store' = StoreAfter(store, batch, o)
               /\ IF o.raised
                  THEN /\ pc' = "raised"
                       /\ UNCHANGED <<total, errors>>
                  ELSE /\ pc' = "refresh"
                       /\ errors' = errors + BatchErrors(o.response)
                       /\ total' = total + (IF mode = "import"
                                            THEN ImportCount(batch)
                                            ELSE DeleteCount(batch))
    /\ UNCHANGED <<mode, batch_size, csv, pos, batch, reported, source, outer>>

\* lines 304-307 / 359-360
Refresh ==
    /\ pc = "refresh"
    /\ \E raised \in BOOLEAN :
          /\ log' = Append(log, RefreshRequest(raised))
          /\ IF raised
             THEN pc' = "raised" /\ reported' = reported
             ELSE /\ pc' = "done"
                  /\ reported' = <<[submitted |-> total, failed |-> errors]>>
    /\ UNCHANGED <<mode, batch_size, csv, pos, batch, total, errors, store, source, outer>>

Next ==
    \/ OpenSource
    \/ ImportMalformed
    \/ ImportEncodeError
    \/ ImportBadTimestamp
    \/ ImportAppend
    \/ DeleteSkip
    \/ DeleteEncodeError
    \/ DeleteAppend
    \/ FinalFlush
    \/ Refresh

Spec == Init /\ [][Next]_vars

\* ------------------------------------------------------- consecutive runs
\* the run made no bulk or refresh request that raised or reported errors
RunClean ==
    \A i \in 1..Len(log) : ~log[i].raised /\ ~log[i].response.errors

\* main, lines 526-536, invoked again on the same CSV after a completed
\* run: a new import_csv or delete_csv starts against the store as it is
NextRun ==
    /\ pc = "done"
    /\ run < MaxRuns
    /\ run' = run + 1
    /\ prior' = Append(prior, [mode |-> mode, clean |-> RunClean, store |-> store])
    /\ mode' \in {"import", "delete"}
    /\ cmd' = mode'
    /\ pc' = "open"
    /\ pos' = 1
    /\ batch' = <<>>
    /\ total' = 0
    /\ errors' = 0
    /\ log' = <<>>
    /\ reported' = <<>>
    /\ UNCHANGED <<batch_size, csv, store, source, store0, cli, crd>>

RunsNext == Next \/ NextRun

RunsSpec == Init /\ [][RunsNext]_vars

\* ------------------------------------------------------ main and its client
MaxQuery == 4

\* the strings of lines 226 and of the store's error replies
Marker == <<"r","e","s","o","u","r","c","e","_","a","l","r","e","a","d","y","_","e","x","i","s","t","s","_","e","x","c","e","p","t","i","o","n">>
InvalidName == <<"i","n","v","a","l","i","d","_","i","n","d","e","x","_","n","a","m","e","_","e","x","c","e","p","t","i","o","n">>
IllegalArgument == <<"i","l","l","e","g","a","l","_","a","r","g","u","m","e","n","t","_","e","x","c","e","p","t","i","o","n">>

\* an index name the store refuses (it starts with "_") that spells the marker
MarkedName == <<"_">> \o Marker

\* Python's `sub in s` for strings
Contains(s, sub) ==
    \E i \in 0..(Len(s) - Len(sub)) : SubSeq(s, i + 1, i + Len(sub)) = sub

\* str(e) of a RequestError: class, status, error type and the reason
RequestErrorStr(e) ==
    <<"R","e","q","u","e","s","t","E","r","r","o","r","(","4","0","0",","," ","'">> \o e.error \o <<"'", ",", " ", "'">> \o e.reason \o <<"'", ")">>

\* what client.indices.create (line 222) can answer for a name, given the
\* indices that exist; a ConnectionError is not a RequestError
CreateOutcomes(name, existing) ==
    {[kind |-> "ConnectionError", error |-> <<>>, reason |-> <<>>]} \cup
    (IF name[1] = "_"
     THEN {[kind |-> "RequestError", error |-> InvalidName,
            reason |-> <<"I","n","v","a","l","i","d"," ","i","n","d","e","x"," ","n","a","m","e"," ","[">> \o name \o <<"]">>]}
     ELSE IF name \in existing
     THEN {[kind |-> "RequestError", error |-> Marker,
            reason |-> <<"i","n","d","e","x"," ","[">> \o name \o <<"]"," ","a","l","r","e","a","d","y"," ","e","x","i","s","t","s">>]}
     ELSE {[kind |-> "ok", error |-> <<>>, reason |-> <<>>],
           [kind |-> "RequestError", error |-> IllegalArgument,
            reason |-> <<"u","n","k","n","o","w","n"," ","s","e","t","t","i","n","g">>]})

\* str.replace(old, '') for a one-character old
RECURSIVE Replace(_, _)
Replace(s, old) ==
    IF s = <<>> THEN <<>>
    ELSE IF Head(s) = old THEN Replace(Tail(s), old)
    ELSE <<Head(s)>> \o Replace(Tail(s), old)

\* mutant: the semicolon is left in
Sanitize_TwoPasses(q) == Replace(Replace(q, "<"), ">")

\* line 369
Sanitize(q) == Replace(Replace(Replace(q, "<"), ">"), ";")

QueryChars == {"<", ">", ";", "a"}
Queries == UNION {[1..n -> QueryChars] : n \in 0..MaxQuery}

Commands == {"init", "drop", "copy", "import", "delete", "query", "cache", "none"}

\* the branch of the if/elif chain of lines 508-554 that the arguments
\* select; an empty -query is falsy and falls through to the last two
Branch ==
    CASE cmd \in {"init", "drop", "copy", "import", "delete", "cache"} -> cmd
      [] cmd = "query" /\ query # <<>> -> "query"
      [] OTHER -> IF index # <<>> THEN "info" ELSE "list"

\* the CSV files main is run on: those of at most one row (the runs on
\* longer files are explored by Spec and RunsSpec)
MainCsvFiles == {c \in CsvFiles : Len(c) <= 1}

runvars == <<mode, batch_size, csv, pc, pos, batch, total, errors, log, store,
             reported, source>>

\* one invocation of the command line, before main runs
MainInit ==
    /\ mpc = "start"
    /\ address \in {"ok", "invalid"}
    /\ cmd \in Commands
    /\ index \in IF cmd = "init" THEN {<<>>, IndexName, MarkedName}
                                 ELSE {<<>>, IndexName}
    /\ query \in IF cmd = "query" THEN Queries ELSE {<<>>}
    /\ conn = "none"
    /\ closes = 0
    /\ exit = "none"
    /\ messages = <<>>
    /\ indices \in {{}, {IndexName}}
    /\ requests = <<>>
    /\ mode \in IF cmd = "delete" THEN {"delete"} ELSE {"import"}
    /\ batch_size \in 1..MaxBatchSize
    /\ csv \in IF cmd \in {"import", "delete"} THEN MainCsvFiles ELSE {<<>>}
    /\ pc = "idle"
    /\ pos = 1
    /\ batch = <<>>
    /\ total = 0
    /\ errors = 0
    /\ log = <<>>
    /\ store \in {InitStore, PreStore}
    /\ reported = <<>>
    /\ source \in IF cmd \in {"import", "delete"}
                  THEN {"ok", "FileNotFoundError", "OSError"} ELSE {"ok"}
    /\ run = 1
    /\ prior = <<>>
    /\ store0 = store
    /\ environ = SetEnviron
    /\ configs = NoConfigs
    /\ creds = <<>>

\* lines 499-504
ParseAddress ==
    /\ mpc = "start"
    /\ IF address = "ok"
       THEN mpc' = "connect" /\ UNCHANGED <<exit, messages>>
       ELSE /\ mpc' = "exited"
            /\ exit' = "SystemExit"
            /\ messages' = Append(messages, [level |-> "error", about |-> "address"])
    /\ UNCHANGED <<runvars, run, prior, store0, crd, cmd, address, index, query,
                   conn, closes, indices, requests>>

\* lines 97-110 and 507: the client is constructed and the with-block entered
GetClient ==
    /\ mpc = "connect"
    /\ LET c == GetCredentials(environ, configs)
       IN /\ creds' = <<[user |-> c.user, password |-> c.password]>>
          /\ messages' = messages \o c.warnings
    /\ conn' = "open"
    /\ mpc' = "dispatch"
    /\ UNCHANGED <<runvars, run, prior, store0, cmd, address, index, query,
                   closes, exit, indices, requests, environ, configs>>

\* the `if not args.index` of lines 509-511, 515-517, ..., 545-547
MissingIndex ==
    /\ mpc = "dispatch"
    /\ Branch \in {"init", "drop", "copy", "import", "delete", "query", "cache"}
    /\ index = <<>>
    /\ messages' = Append(messages, [level |-> "error", about |-> "index required"])
    /\ exit' = "SystemExit"
    /\ mpc' = "unwind"
    /\ UNCHANGED <<runvars, run, prior, store0, crd, cmd, address, index, query,
                   conn, closes, indices, requests>>

\* lines 221-230, called at line 512
CreateIndex ==
    /\ mpc = "dispatch"
    /\ Branch = "init"
    /\ index # <<>>
    /\ \E o \in CreateOutcomes(index, indices) :
          /\ requests' = Append(requests, [type |-> "create", index |-> index,
                                           query |-> <<>>, outcome |-> o])
          /\ CASE o.kind = "ok" ->
                     /\ indices' = indices \cup {index}
                     /\ messages' = Append(messages, [level |-> "info", about |-> "created"])
                     /\ exit' = "normal"
               [] o.kind = "RequestError" /\ Contains(RequestErrorStr(o), Marker) ->
                     /\ indices' = indices
                     /\ messages' = Append(messages, [level |-> "warning", about |-> "exists"])
                     /\ exit' = "normal"
               [] o.kind = "RequestError" /\ ~Contains(RequestErrorStr(o), Marker) ->
                     /\ indices' = indices
                     /\ messages' = Append(messages, [level |-> "error", about |-> "create failed"])
                     /\ exit' = "exception"
               [] OTHER ->
                     /\ indices' = indices
                     /\ messages' = messages
                     /\ exit' = "exception"
    /\ mpc' = "unwind"
    /\ UNCHANGED <<runvars, run, prior, store0, crd, cmd, address, index, query, conn, closes>>

CopyName == <<"c","p","y">>

\* the names of a set of indices as a list
RECURSIVE NameList(_)
NameList(S) ==
    IF S = {} THEN <<>>
    ELSE LET n == CHOOSE x \in S : TRUE IN <<n>> \o NameList(S \ {n})

\* one count request per listed index, line 121
CountRequests(names) ==
    [i \in 1..Len(names) |->
        [type |-> "count", index |-> names[i], query |-> <<>>,
         outcome |-> [kind |-> "ok", error |-> <<>>, reason |-> <<>>]]]

\* drop_index (433-442), copy_index (445-456), get_index_info (129-140) and
\* list_indexes (116-126): one request, every failure of which is caught
\* and logged; list_indexes then counts each index
AdminAction ==
    /\ mpc = "dispatch"
    /\ Branch \in {"drop", "copy", "info", "list"}
    /\ Branch \in {"drop", "copy"} => index # <<>>
    /\ \E k \in {"ok", "NotFoundError", "Exception"} :
          /\ k = "ok" /\ Branch \in {"drop", "copy", "info"} => index \in indices
          /\ k = "NotFoundError" => Branch # "list" /\ index \notin indices
          /\ requests' = Append(requests,
                                [type |-> Branch, index |-> index, query |-> <<>>,
                                 outcome |-> [kind |-> k, error |-> <<>>, reason |-> <<>>]])
                         \o (IF k = "ok" /\ Branch = "list"
                             THEN CountRequests(NameList(indices)) ELSE <<>>)
          /\ indices' = CASE k = "ok" /\ Branch = "drop" -> indices \ {index}
                          [] k = "ok" /\ Branch = "copy" -> indices \cup {CopyName}
                          [] OTHER -> indices
          /\ messages' = IF k = "ok" THEN messages
                         ELSE Append(messages, [level |-> "error", about |-> Branch])
    /\ exit' = "normal"
    /\ mpc' = "unwind"
    /\ UNCHANGED <<runvars, run, prior, store0, crd, cmd, address, index, query, conn, closes>>

\* lines 366-421, called at line 542: every failure is caught and logged
Search ==
    /\ mpc = "dispatch"
    /\ Branch = "query"
    /\ index # <<>>
    /\ \E k \in {"ok", "NotFoundError", "Exception"} :
          /\ k = "NotFoundError" <=> index \notin indices
          /\ requests' = Append(requests,
                                [type |-> "search", index |-> index,
                                 query |-> Sanitize(query),
                                 outcome |-> [kind |-> k, error |-> <<>>, reason |-> <<>>]])
          /\ messages' = IF k = "ok" THEN messages
                         ELSE Append(messages, [level |-> "error", about |-> "search"])
    /\ exit' = "normal"
    /\ mpc' = "unwind"
    /\ UNCHANGED <<runvars, run, prior, store0, crd, cmd, address, index, query,
                   conn, closes, indices>>

\* lines 424-432, called at line 548
GetCache ==
    /\ mpc = "dispatch"
    /\ Branch = "cache"
    /\ index # <<>>
    /\ \E id \in AllIds, raised \in BOOLEAN :
          LET r == IF raised THEN [status |-> "failed", content |-> <<>>]
                   ELSE IF index \notin indices
                   THEN [status |-> "not_found", content |-> <<>>]
                   ELSE CacheLookup(store, id)
          IN /\ requests' = Append(requests,
                                   [type |-> "get", index |-> index, query |-> id,
                                    outcome |-> [kind |-> r.status, error |-> <<>>,
                                                 reason |-> r.content]])
             /\ messages' = IF r.status = "found" THEN messages
                            ELSE Append(messages, [level |-> "error", about |-> "cache"])
    /\ exit' = "normal"
    /\ mpc' = "unwind"
    /\ UNCHANGED <<runvars, run, prior, store0, crd, cmd, address, index, query,
                   conn, closes, indices>>

\* lines 530 and 536: import_csv / delete_csv is called
StartCsv ==
    /\ mpc = "dispatch"
    /\ Branch \in {"import", "delete"}
    /\ index # <<>>
    /\ mode' = Branch
    /\ pc' = "open"
    /\ mpc' = "action"
    /\ UNCHANGED <<batch_size, csv, pos, batch, total, errors, log, store,
                   reported, source, run, prior, store0, crd, cmd, address, index,
                   query, conn, closes, exit, messages, indices, requests>>

\* import_csv / delete_csv returned or raised into the with-block
CsvEnds ==
    /\ mpc = "action"
    /\ pc \in {"done", "returned", "raised"}
    /\ exit' = IF pc = "raised" THEN "exception" ELSE "normal"
    /\ mpc' = "unwind"
    /\ UNCHANGED <<runvars, run, prior, store0, crd, cmd, address, index, query,
                   conn, closes, messages, indices, requests>>

\* mutant: the client is closed after the with-block, without try/finally
CloseClient_NoFinally ==
    /\ mpc = "unwind"
    /\ IF exit = "normal"
       THEN conn' = "closed" /\ closes' = closes + 1
       ELSE UNCHANGED <<conn, closes>>
    /\ mpc' = "exited"
    /\ UNCHANGED <<runvars, run, prior, store0, crd, cmd, address, index, query,
                   exit, messages, indices, requests>>

\* lines 110-113: the finally of get_client, run however the with-block ends
CloseClient ==
    /\ mpc = "unwind"
    /\ conn' = "closed"
    /\ closes' = closes + 1
    /\ mpc' = "exited"
    /\ UNCHANGED <<runvars, run, prior, store0, crd, cmd, address, index, query,
                   exit, messages, indices, requests>>

\* the same command line invoked once more, against the store as it is
MainAgain ==
    /\ mpc = "exited"
    /\ run < MaxRuns
    /\ run' = run + 1
    /\ mpc' = "start"
    /\ conn' = "none"
    /\ closes' = 0
    /\ exit' = "none"
    /\ messages' = <<>>
    /\ requests' = <<>>
    /\ pc' = "idle"
    /\ pos' = 1
    /\ batch' = <<>>
    /\ total' = 0
    /\ errors' = 0
    /\ log' = <<>>
    /\ reported' = <<>>
    /\ prior' = Append(prior, [mode |-> cmd, clean |-> exit = "normal", store |-> store])
    /\ creds' = <<>>
    /\ UNCHANGED <<mode, batch_size, csv, store, source, store0, cmd, address,
                   index, query, indices, environ, configs>>

MainNext ==
    \/ ParseAddress
    \/ GetClient
    \/ MissingIndex
    \/ CreateIndex
    \/ AdminAction
    \/ Search
    \/ GetCache
    \/ StartCsv
    \/ Next
    \/ CsvEnds
    \/ CloseClient
    \/ MainAgain

MainSpec == MainInit /\ [][MainNext]_vars

\* main at line 507, about to enter get_client, for every environment and
\* every content of the three configuration files
CredInit ==
    /\ mpc = "connect"
    /\ address = "ok"
    /\ cmd = "none"
    /\ index = <<>>
    /\ query = <<>>
    /\ conn = "none"
    /\ closes = 0
    /\ exit = "none"
    /\ messages = <<>>
    /\ indices = {IndexName}
    /\ requests = <<>>
    /\ environ \in Environs
    /\ configs \in [ConfigPaths -> UNION {FilesOf(k) : k \in ConfigPaths}]
    /\ \A k \in ConfigPaths : configs[k] \in FilesOf(k)
    /\ creds = <<>>
    /\ mode = "import"
    /\ batch_size = 1
    /\ csv = <<>>
    /\ pc = "idle"
    /\ pos = 1
    /\ batch = <<>>
    /\ total = 0
    /\ errors = 0
    /\ log = <<>>
    /\ store = InitStore
    /\ reported = <<>>
    /\ source = "ok"
    /\ run = 1
    /\ prior = <<>>
    /\ store0 = store

CredNext == GetClient

CredSpec == CredInit /\ [][CredNext]_vars

TypeOK ==
    /\ mode \in {"import", "delete"}
    /\ batch_size \in 1..MaxBatchSize
    /\ pc \in {"idle", "open", "reading", "refresh", "done", "returned", "raised"}
    /\ pos \in 1..(Len(csv) + 1)
    /\ total \in Nat
    /\ errors \in Nat


\* ----------------------------------------------------- helpers for claims
IsBulk(e) == e.type = "bulk"
IsRefresh(e) == e.type = "refresh"

BulkIndices == {i \in 1..Len(log) : IsBulk(log[i])}
RefreshIndices == {i \in 1..Len(log) : IsRefresh(log[i])}

\* the CSV positions of the rows whose units a request body carries
RowsOf(body) == {body[k].row : k \in 1..Len(body)}

\* number of action headers (logical operations) in a sequence of wire units
OpCount(units) == Cardinality({k \in 1..Len(units) : units[k].kind # "doc"})

\* number of items of a response that carry an error
ItemErrorCount(response) ==
    Cardinality({k \in 1..Len(response.items) : response.items[k].error})

\* a row the spec calls well-formed: at least 5 fields, integer timestamp
WellFormedRow(row) == Len(row) >= 5 /\ PyIntParses(row[1])

WellFormedCount == Cardinality({k \in 1..Len(csv) : WellFormedRow(csv[k])})

\* a row whose processing raises nowhere
CleanRow(row) ==
    /\ Len(row) >= 5
    /\ EncodeOk(row[2])
    /\ TimestampOk(row[1])

NoStoreFailure ==
    \A i \in 1..Len(log) : ~log[i].raised /\ ~log[i].response.errors

\* the step issued a bulk request
IssuedBulk == Len(log') = Len(log) + 1 /\ IsBulk(log'[Len(log')])

CeilDiv(n, b) == (n + b - 1) \div b

\* --------------------------------------------------------------------- C1
\* C1 (as claimed): a bulk request that raised is the last request of the
\* run and the run has aborted with the failure propagated: no later row is
\* read, no later bulk or refresh request is issued.
C1_RequestFailureAborts ==
    \A i \in BulkIndices :
        log[i].raised => (i = Len(log) /\ pc = "raised")

\* --------------------------------------------------------------------- C2
\* C2 (as claimed): the operation built from a row appears in at most one
\* bulk request of the run, also after a bulk request that failed.
C2_SubmittedOnce ==
    \A i, j \in BulkIndices :
        i < j => RowsOf(log[i].body) \cap RowsOf(log[j].body) = {}

\* --------------------------------------------------------------------- C3
\* C3 (as claimed): processing an import row with at least 5 fields whose
\* timestamp is not an integer adds one to failed, leaves the batch and
\* submitted as they were, and goes on to the next row.
C3_InvalidTimestampSkipped ==
    [][(/\ pc = "reading" /\ mode = "import" /\ pos <= Len(csv)
        /\ Len(csv[pos]) >= 5
        /\ ~PyIntParses(csv[pos][1]))
       => (/\ errors' = errors + 1
           /\ batch' = batch
           /\ total' = total
           /\ pos' = pos + 1
           /\ pc' = "reading")]_vars

\* --------------------------------------------------------------------- C4
\* C4 (as claimed): the batch never holds more than batch_size operations
\* (2 * batch_size wire units in import, batch_size in delete), and no bulk
\* request carries more than batch_size operations.
C4_BatchBounded ==
    LET limit == IF mode = "import" THEN 2 * batch_size ELSE batch_size IN
    /\ Len(batch) <= limit
    /\ OpCount(batch) <= batch_size
    /\ \A i \in BulkIndices :
          /\ Len(log[i].body) <= limit
          /\ OpCount(log[i].body) <= batch_size

\* --------------------------------------------------------------------- C5
\* C5 (as claimed): when an import run is Done, submitted equals the number
\* of rows with at least 5 fields and an integer timestamp.
C5_SubmittedIsWellFormedCount ==
    (mode = "import" /\ pc = "done") => total = WellFormedCount

\* --------------------------------------------------------------------- C6
\* C6: an import row with fewer than 5 fields adds exactly 1 to failed,
\* leaves submitted and the batch unchanged, issues no request, and the run
\* goes on to the next row.
C6_MalformedRowCounted ==
    [][(/\ pc = "reading" /\ mode = "import" /\ pos <= Len(csv)
        /\ Len(csv[pos]) < 5)
       => (/\ errors' = errors + 1
           /\ total' = total
           /\ batch' = batch
           /\ log' = log
           /\ store' = store
           /\ pos' = pos + 1
           /\ pc' = "reading")]_vars

\* an import run has just processed a malformed row
C6_Witness ==
    /\ mode = "import" /\ pc = "reading"
    /\ pos > 1 /\ Len(csv[pos - 1]) < 5
    /\ errors >= 1

\* --------------------------------------------------------------------- C7
\* C7: when a bulk request returns a response reporting per-item errors,
\* failed grows by exactly the number of items carrying an error, the batch
\* counts as submitted and none of its rows is sent again, and the run does
\* not abort: it keeps reading (with an empty batch) or goes on to refresh.
C7_PerItemErrorsRecoverable ==
    [][IssuedBulk =>
        LET e == log'[Len(log')] IN
        /\ (~e.raised /\ e.response.errors) =>
              /\ errors' = errors + ItemErrorCount(e.response)
              /\ total' = total + (IF mode = "import"
                                   THEN Len(e.body) \div 2 ELSE Len(e.body))
              /\ pc' \in {"reading", "refresh"}
              /\ (pc' = "reading" => batch' = <<>>)
        /\ \A i \in BulkIndices :
              (~log[i].raised /\ log[i].response.errors)
                  => RowsOf(log[i].body) \cap RowsOf(e.body) = {}]_vars

\* a response reported item errors, and a later batch was flushed
C7_Witness ==
    \E i, j \in BulkIndices :
        /\ i < j
        /\ ~log[i].raised /\ log[i].response.errors
        /\ errors >= ItemErrorCount(log[i].response)
        /\ ItemErrorCount(log[i].response) >= 1

\* --------------------------------------------------------------------- C8
\* what C8 states of a Done import of N rows with batch bound B
BatchingAsClaimed ==
    LET N == Len(csv)
        B == batch_size
        n == CeilDiv(N, B)
        bulks == SelectSeq(log, IsBulk)
    IN  /\ Len(bulks) = n
        /\ \A i \in 1..Len(bulks) :
              /\ OpCount(bulks[i].body) = (IF i < n THEN B ELSE N - B * (n - 1))
              /\ Len(bulks[i].body) = 2 * OpCount(bulks[i].body)
              /\ \A k \in 1..Len(bulks[i].body) :
                     bulks[i].body[k].kind \in {"index", "doc"}
        /\ total = N
        /\ errors = 0
        /\ reported = <<[submitted |-> N, failed |-> 0]>>

\* C8 (as claimed): an import of N well-formed rows with batch bound B and
\* no store failure issues exactly ceil(N/B) bulk requests; each but the
\* last carries exactly B index operations, the last carries
\* N - B*(ceil(N/B)-1); the final tally is submitted = N, failed = 0.
C8_BatchCountAndSizes ==
    (/\ mode = "import" /\ pc = "done"
     /\ \A k \in 1..Len(csv) : WellFormedRow(csv[k])
     /\ NoStoreFailure)
    => BatchingAsClaimed

\* The same statement restricted to rows whose processing raises nowhere
\* (full_path encodable, timestamp in the range of datetime): it holds.
CleanImportBatching ==
    (/\ mode = "import" /\ pc = "done"
     /\ \A k \in 1..Len(csv) : CleanRow(csv[k])
     /\ NoStoreFailure)
    => BatchingAsClaimed

\* --------------------------------------------------------------------- C9
\* C9: every bulk write is issued with refresh disabled; a run that is Done
\* has issued exactly one refresh request, on the target index, as its last
\* request; for an empty CSV it issued no bulk write and reports {0,0}.
C9_OneTerminalRefresh ==
    /\ \A i \in BulkIndices : log[i].refresh = FALSE
    /\ pc = "done" =>
          /\ Cardinality(RefreshIndices) = 1
          /\ RefreshIndices = {Len(log)}
          /\ log[Len(log)].index = IndexName
          /\ ~log[Len(log)].raised
          /\ csv = <<>> =>
                /\ BulkIndices = {}
                /\ reported = <<[submitted |-> 0, failed |-> 0]>>

\* a Done run that issued bulk writes and then the refresh
C9_Witness ==
    /\ pc = "done"
    /\ BulkIndices # {}
    /\ IsRefresh(log[Len(log)])
    /\ Len(reported) = 1

\* -------------------------------------------------------------------- C10
\* C10: when the source cannot be opened no request reaches the store, no
\* tally is reported, the store is unchanged and no row is read.
C10_UnopenedSourceNoEffect ==
    source # "ok" =>
        /\ log = <<>>
        /\ reported = <<>>
        /\ store = store0
        /\ pos = 1
        /\ pc \in {"open", "returned", "raised"}

\* the open failed and the run is over
C10_Witness ==
    /\ source = "FileNotFoundError"
    /\ pc = "returned"
    /\ csv # <<>>


\* -------------------------------------------------------------------- C17
\* every wire unit the run has built: in the batch or in a request body
BuiltUnits ==
    {batch[k] : k \in 1..Len(batch)}
    \cup UNION {{log[i].body[k] : k \in 1..Len(log[i].body)} : i \in BulkIndices}

\* C17: a document built from a row of 8 or more fields takes relpath,
\* server and share (and ext, filetype, content) from fields 3..8 and never
\* the legacy defaults; one built from a row of 5 to 7 fields has
\* relpath = full_path, server = "" and share = ""; no document is built from
\* a shorter row; every index header's id is the hash of the second field.
C17_NormalizationBranches ==
    \A u \in BuiltUnits :
        LET row == csv[u.row] IN
        /\ Len(row) >= 5
        /\ u.kind = "index" => u._id = Md5Hex(row[2])
        /\ u.kind = "doc" =>
              /\ u.inurl = row[2]
              /\ IF Len(row) >= 8
                 THEN /\ u.relpath = row[3] /\ u.server = row[4]
                      /\ u.share = row[5] /\ u.ext = row[6]
                      /\ u.filetype = row[7] /\ u.intext = row[8]
                 ELSE /\ u.relpath = row[2] /\ u.server = <<>>
                      /\ u.share = <<>> /\ u.ext = row[3]
                      /\ u.filetype = row[4] /\ u.intext = row[5]

\* documents were built from a 9-field row and from a 7-field row
C17_Witness ==
    /\ mode = "import"
    /\ \E u \in BuiltUnits : u.kind = "doc" /\ Len(csv[u.row]) = 9
    /\ \E u \in BuiltUnits : u.kind = "doc" /\ Len(csv[u.row]) = 7

\* -------------------------------------------------------------------- C18
\* C18 (as claimed): every bulk body submitted by import has even length and
\* alternates index header and document, the header's id being the hash of
\* the document's full_path.
C18_BodiesAlternate ==
    mode = "import" =>
        \A i \in BulkIndices :
            LET body == log[i].body IN
            /\ Len(body) % 2 = 0
            /\ \A k \in 1..(Len(body) \div 2) :
                  /\ body[2 * k - 1].kind = "index"
                  /\ body[2 * k].kind = "doc"
                  /\ body[2 * k - 1]._id = Md5Hex(body[2 * k].inurl)

\* -------------------------------------------------------------------- C19
\* the rows whose operations the bodies of all bulk requests list, in order
RECURSIVE HeaderRows(_)
HeaderRows(units) ==
    IF units = <<>> THEN <<>>
    ELSE (IF Head(units).kind = "doc" THEN <<>> ELSE <<Head(units).row>>)
         \o HeaderRows(Tail(units))

RECURSIVE ConcatBodies(_)
ConcatBodies(entries) ==
    IF entries = <<>> THEN <<>>
    ELSE Head(entries).body \o ConcatBodies(Tail(entries))

\* the operation of row r is complete in body: its delete header, or its
\* index header followed by its document
CarriesOp(body, r) ==
    \E k \in 1..Len(body) :
        /\ body[k].row = r
        /\ \/ body[k].kind = "delete"
           \/ /\ body[k].kind = "index"
              /\ k < Len(body)
              /\ body[k + 1].kind = "doc" /\ body[k + 1].row = r

\* a row the run has to turn into an operation: import needs 5 fields and an
\* integer timestamp, delete needs only the full_path
RowToSubmit(row) ==
    IF mode = "import" THEN WellFormedRow(row) ELSE Len(row) >= 5

\* C19 (as claimed): in a run that is Done the operation of every
\* well-formed row is in some bulk request, and the concatenation of all
\* bulk requests lists the operations in the order of their rows.
C19_NoLossInOrder ==
    pc = "done" =>
        /\ \A r \in 1..Len(csv) :
              RowToSubmit(csv[r]) =>
                  \E i \in BulkIndices : CarriesOp(log[i].body, r)
        /\ LET rows == HeaderRows(ConcatBodies(SelectSeq(log, IsBulk))) IN
              \A a, b \in 1..Len(rows) : a < b => rows[a] < rows[b]

\* -------------------------------------------------------------------- C20
\* C20 (as claimed): in delete mode a row with fewer than 5 fields adds one
\* to failed, as in import mode, and adds no delete operation to the batch.
C20_DeleteCountsMalformed ==
    [][(/\ pc = "reading" /\ mode = "delete" /\ pos <= Len(csv)
        /\ Len(csv[pos]) < 5)
       => (/\ errors' = errors + 1
           /\ batch' = batch
           /\ pos' = pos + 1)]_vars


\* -------------------------------------------------------------------- C11
PresentIds(st) == {id \in DOMAIN st : st[id] # <<>>}

\* the content field of a row: field 8 of the new schema, field 5 of the legacy
RowContent(row) == IF Len(row) >= 8 THEN row[8] ELSE row[5]

\* the last well-formed row of the CSV with the full_path of row r
LastWithPath(r) ==
    CHOOSE m \in 1..Len(csv) :
        /\ WellFormedRow(csv[m]) /\ csv[m][2] = csv[r][2]
        /\ \A k \in 1..Len(csv) :
              (WellFormedRow(csv[k]) /\ csv[k][2] = csv[r][2]) => k <= m

\* the stored cell is the document built from row r
HoldsRow(cell, r) ==
    /\ cell # <<>>
    /\ cell[1].kind = "doc"
    /\ cell[1].row = r
    /\ cell[1].inurl = csv[r][2]
    /\ cell[1].intext = RowContent(csv[r])

\* the CSV was imported, and imported again, with no store failure
ImportedTwice ==
    /\ run = 2 /\ pc = "done" /\ mode = "import" /\ NoStoreFailure
    /\ prior[1].mode = "import" /\ prior[1].clean

\* C11 (as claimed): after importing the same CSV twice the store has the
\* same identifiers and the same document count as after importing it once,
\* and for every well-formed row the document under the hash of its
\* full_path holds the fields of the last row with that full_path.
C11_ImportIdempotent ==
    ImportedTwice =>
        /\ PresentIds(store) = PresentIds(prior[1].store)
        /\ Cardinality(PresentIds(store)) = Cardinality(PresentIds(prior[1].store))
        /\ \A r \in 1..Len(csv) :
              WellFormedRow(csv[r]) =>
                  HoldsRow(store[DocId(csv[r][2])], LastWithPath(r))

\* The idempotence alone: a second import leaves the store as the first did.
SecondImportChangesNothing ==
    ImportedTwice => store = prior[1].store

\* -------------------------------------------------------------------- C12
\* C12 (as claimed): after an import with no store failure, for every
\* well-formed row the lookup by the hash of its full_path returns that
\* row's content.
C12_RoundTrip ==
    (mode = "import" /\ pc = "done" /\ NoStoreFailure) =>
        \A r \in 1..Len(csv) :
            WellFormedRow(csv[r]) =>
                CacheLookup(store, DocId(csv[r][2])) =
                    [status |-> "found", content |-> RowContent(csv[r])]

\* -------------------------------------------------------------------- C13
\* the CSV was imported, then deleted, with no store failure
ImportedThenDeleted ==
    /\ run = 2 /\ pc = "done" /\ mode = "delete" /\ NoStoreFailure
    /\ prior[1].mode = "import" /\ prior[1].clean

\* the identifiers under which the import left a document of its own
\* (documents of other sources carry the row tag 0)
InsertedIds(st) == {id \in PresentIds(st) : st[id][1].row > 0}

\* the identifiers delete_csv derives from the CSV
CsvIds == {Md5Hex(csv[r][2]) : r \in {k \in 1..Len(csv) : Len(csv[k]) >= 5}}

C14_ClosedOnceOnEveryPath ==
    /\ [](/\ conn \in {"none", "open"} => closes = 0
          /\ conn = "closed" => closes = 1
          /\ mpc = "exited" => conn \in {"none", "closed"}
          /\ mpc = "exited" /\ conn = "none" => exit = "SystemExit" /\ requests = <<>> /\ log = <<>>)
    /\ [][Len(log') > Len(log) \/ Len(requests') > Len(requests)
             => conn = "open" /\ conn' = "open"]_vars

\* an import that raised out of main after issuing requests, the client closed
C14_Witness ==
    /\ mpc = "exited"
    /\ Branch = "import"
    /\ exit = "exception"
    /\ log # <<>>
    /\ conn = "closed"
    /\ closes = 1

\* the other two exit paths of the claim
C14_MissingIndexClosed ==
    mpc = "exited" /\ exit = "SystemExit" /\ conn = "closed" /\ closes = 1

C14_NormalReturnClosed ==
    mpc = "exited" /\ exit = "normal" /\ requests # <<>> /\ closes = 1

\* the create_index call of a step, if the step is one
CreateStep ==
    /\ mpc = "dispatch"
    /\ Branch = "init"
    /\ Len(requests') = Len(requests) + 1

CreateReply == requests'[Len(requests')].outcome

\* the store answered that the index already exists
AlreadyExists(o) == o.kind = "RequestError" /\ o.error = Marker

\* C15: a create of an index that already exists is a warning: create_index
\* returns normally, nothing is logged as an error and the indices are as
\* before (so a second create changes nothing); a create answered with any
\* other request error raises to the caller.
C15_CreateExistsIsWarning ==
    [][CreateStep =>
          /\ AlreadyExists(CreateReply) =>
                /\ exit' = "normal"
                /\ indices' = indices
                /\ messages'[Len(messages')].level = "warning"
          /\ CreateReply.kind = "RequestError" /\ ~AlreadyExists(CreateReply) =>
                exit' = "exception"]_vars

\* the part of C15 about the existing index alone
CreateExistingUnchanged ==
    [][CreateStep /\ AlreadyExists(CreateReply) =>
          /\ exit' = "normal"
          /\ indices' = indices
          /\ messages'[Len(messages')].level = "warning"]_vars

\* a second create of the same index has returned normally
CreateTwiceReached ==
    /\ run = 2
    /\ prior[1].mode = "init" /\ prior[1].clean
    /\ mpc = "exited"
    /\ exit = "normal"
    /\ requests # <<>> /\ AlreadyExists(requests[1].outcome)

Stripped == {"<", ">", ";"}
Kept(c) == c \notin Stripped

\* C16: the query text of every search request is the raw query with each
\* '<', '>' and ';' removed and every other character kept in order, so it
\* contains none of the three.
C16_QuerySanitized ==
    \A i \in 1..Len(requests) :
        requests[i].type = "search" =>
            /\ requests[i].query = SelectSeq(query, Kept)
            /\ \A k \in 1..Len(requests[i].query) : requests[i].query[k] \notin Stripped

\* a search was submitted for a raw query holding all three characters
\* and one that is kept
C16_Witness ==
    /\ \A c \in QueryChars : \E k \in 1..Len(query) : query[k] = c
    /\ \E i \in 1..Len(requests) :
          requests[i].type = "search" /\ requests[i].query = <<"a">>

\* -------------------------------------------------------------------- C21
\* the sources in priority order: 0 the environment, 1..3 the user, system
\* and local configuration file
Sources == 0..3

\* source k gives a user (a password): the environment variable is set and
\* not empty, or the file exists, is read without failure and holds a line
\* with the value
GivesUser(k) ==
    IF k = 0 THEN environ.user # <<>>
    ELSE /\ configs[k].exists
         /\ configs[k].fails = "none"
         /\ \E i \in 1..Len(configs[k].lines) : configs[k].lines[i] = UserLine(k)

GivesPassword(k) ==
    IF k = 0 THEN environ.password # <<>>
    ELSE /\ configs[k].exists
         /\ configs[k].fails = "none"
         /\ \E i \in 1..Len(configs[k].lines) : configs[k].lines[i] = PassLine(k)

SuppliesBoth(k) == GivesUser(k) /\ GivesPassword(k)

\* C21: the pair that credential resolution returns is the user and the
\* password of the highest-priority source (environment, then the user,
\* system and local configuration file) that supplies both values, both
\* taken from that one source, and the hardcoded fallback pair when no
\* source supplies both; resolution always returns a pair.
C21_FirstMatchWins ==
    mpc # "connect" =>
        /\ Len(creds) = 1
        /\ IF \E k \in Sources : SuppliesBoth(k)
           THEN LET first == CHOOSE k \in Sources :
                                 SuppliesBoth(k) /\ \A j \in 0..(k - 1) : ~SuppliesBoth(j)
                IN creds[1] = [user |-> UserOf(first), password |-> PassOf(first)]
           ELSE creds[1] = [user |-> FallbackPair, password |-> FallbackPair]

\* the part of C21 that the code keeps: a pair is always returned, and when
\* the environment supplies both values it is the environment's pair
CredentialsAlwaysReturned ==
    mpc # "connect" =>
        /\ Len(creds) = 1
        /\ creds[1].user # <<>> /\ creds[1].password # <<>>
        /\ SuppliesBoth(0) => creds[1] = [user |-> UserOf(0), password |-> PassOf(0)]

\* a user of one source returned with the password of another
CredentialsCombined ==
    /\ Len(creds) = 1
    /\ \E j, k \in Sources :
          j # k /\ creds[1] = [user |-> UserOf(j), password |-> PassOf(k)]

====
